---- MODULE Spec2Model ----
(***************************************************************************)
(* Model of backend/server.py: the user and profile endpoints of the       *)
(* app-locking backend over the two document collections db.users and      *)
(* db.profiles.                                                             *)
(*                                                                          *)
(* Every handler is a coroutine.  Between two awaited store calls a handler *)
(* runs without interruption; at an await any other request may run.  Each  *)
(* action below is therefore one store call of a handler together with the  *)
(* synchronous code that follows it up to the next store call (or up to the *)
(* return).  A handler with a single store call is a single action.         *)
(***************************************************************************)
EXTENDS Integers, Sequences, FiniteSets, TLC

(***************************************************************************)
(* Bounds of the model.                                                     *)
(***************************************************************************)
\* Number of identifiers uuid4 can hand out (two per created user).
MaxIds == 4
\* A user_id no document ever carries (it is outside the identifiers uuid4
\* hands out).
UnknownId == MaxIds + 1
\* Value of the clock from which on no request that stamps a document is
\* taken up (requests already in flight run to their end).
MaxClock == 3

(***************************************************************************)
(* Program constants.                                                       *)
(***************************************************************************)
\* server.py:122  "if len(protected_apps) >= 20"
MaxApps == 20
\* server.py:154  "if len(password_req.password) > 8"
MaxPasswordLen == 8

\* Handlers that can be in flight at the same time.
Slots == {1, 2}

Ids == 1..MaxIds

\* Python's None, as returned by find_one when no document matches.
None == [none |-> TRUE]

(***************************************************************************)
(* get_mock_apps: the fixed catalogue (icons written as code points).       *)
(***************************************************************************)
mock_apps ==
  << [name |-> "Facebook",    package_name |-> "com.facebook.katana",               icon |-> "U+1F4D8"],
     [name |-> "WhatsApp",    package_name |-> "com.whatsapp",                      icon |-> "U+1F4AC"],
     [name |-> "Instagram",   package_name |-> "com.instagram.android",             icon |-> "U+1F4F7"],
     [name |-> "TikTok",      package_name |-> "com.zhiliaoapp.musically",          icon |-> "U+1F3B5"],
     [name |-> "YouTube",     package_name |-> "com.google.android.youtube",        icon |-> "U+25B6"],
     [name |-> "Twitter",     package_name |-> "com.twitter.android",               icon |-> "U+1F426"],
     [name |-> "Snapchat",    package_name |-> "com.snapchat.android",              icon |-> "U+1F47B"],
     [name |-> "Netflix",     package_name |-> "com.netflix.mediaclient",           icon |-> "U+1F3AC"],
     [name |-> "Spotify",     package_name |-> "com.spotify.music",                 icon |-> "U+1F3B6"],
     [name |-> "Games",       package_name |-> "com.games.app",                     icon |-> "U+1F3AE"],
     [name |-> "Amazon",      package_name |-> "com.amazon.mShop.android.shopping", icon |-> "U+1F4E6"],
     [name |-> "Google Maps", package_name |-> "com.google.android.apps.maps",      icon |-> "U+1F5FA"],
     [name |-> "Gmail",       package_name |-> "com.google.android.gm",             icon |-> "U+1F4E7"],
     [name |-> "Chrome",      package_name |-> "com.android.chrome",                icon |-> "U+1F310"],
     [name |-> "Discord",     package_name |-> "com.discord",                       icon |-> "U+1F4AC"],
     [name |-> "Telegram",    package_name |-> "org.telegram.messenger",            icon |-> "U+1F4E4"],
     [name |-> "Pinterest",   package_name |-> "com.pinterest",                     icon |-> "U+1F4CC"],
     [name |-> "Reddit",      package_name |-> "com.reddit.frontpage",              icon |-> "U+1F916"],
     [name |-> "Uber",        package_name |-> "com.ubercab",                       icon |-> "U+1F697"],
     [name |-> "Banking",     package_name |-> "com.banking.app",                   icon |-> "U+1F3E6"] >>

(***************************************************************************)
(* Request bodies the clients send.                                         *)
(***************************************************************************)
\* UserCreate bodies: the e-mail address of the user of the initial stores.
UserCreateInputs ==
  { [email |-> "ann@example.com", name |-> "Ann"] }

\* AppAddRequest bodies: a catalogue entry, one that reuses the package_name
\* of another catalogue entry (Banking) under its own name and icon, and one
\* outside the catalogue.
AppAddInputs ==
  { mock_apps[3],
    [name |-> "My Bank", package_name |-> "com.banking.app", icon |-> "B"],
    [name |-> "Notes", package_name |-> "com.notes.app", icon |-> "N"] }

\* AppRemoveRequest bodies.
AppRemoveInputs ==
  { [package_name |-> "com.instagram.android"],
    [package_name |-> "com.unknown.app"] }

\* PasswordSetRequest / PasswordVerifyRequest bodies, of length 0, 8, 8 and 9.
PasswordInputs ==
  { "", "secure12", "wrong123", "123456789" }

\* StateUpdateRequest bodies.
StateUpdateInputs ==
  { [protection_state |-> "ACTIVE", theme |-> "red",   click_count |-> 3],
    [protection_state |-> "LOCKED", theme |-> "green", click_count |-> -1] }

(***************************************************************************)
(* hash_password: PBKDF2-HMAC-SHA256, salt b'salt', 100000 rounds, in hex.  *)
(* The table holds the function's value on each password of PasswordInputs. *)
(***************************************************************************)
\* Variant: the salt is hashed in place of the password.
hash_password_OfSalt(password) ==
  "07a97ffd31064fd2bcbcb2d33a6395425b415a55a84702459d7fb58257fffec5"

\* Variant: the empty password is not hashed.
hash_password_EmptyUnhashed(password) ==
  CASE password = ""          -> ""
    [] password = "secure12"  -> "bc7ed209e4f679e1fd6e534e9e759615013ba2c48ae5aa6b1fd437b0b2df7063"
    [] password = "wrong123"  -> "ce1eb300429135dae7f2e35a33133cb9bb07b59d201af2515da347c6f8d6cfbc"
    [] password = "123456789" -> "2252b7cb6b2306b3d4e9a8c77ba43f853cf51b64948e968a53da29a4a1dcb7f1"

hash_password(password) ==
  CASE password = ""          -> "378a8bda976ade0a4497d2a04bd1ce352bc66c389947624ae5fab8c62074a371"
    [] password = "secure12"  -> "bc7ed209e4f679e1fd6e534e9e759615013ba2c48ae5aa6b1fd437b0b2df7063"
    [] password = "wrong123"  -> "ce1eb300429135dae7f2e35a33133cb9bb07b59d201af2515da347c6f8d6cfbc"
    [] password = "123456789" -> "2252b7cb6b2306b3d4e9a8c77ba43f853cf51b64948e968a53da29a4a1dcb7f1"


(***************************************************************************)
(* State.                                                                   *)
(*                                                                          *)
(* now is the value datetime.utcnow() returns.  It advances by one when a   *)
(* request that stamps a document is taken up, so later requests stamp      *)
(* later times; all stamps of one handler segment read the same value.  No  *)
(* handler reads a stamp back.                                              *)
(***************************************************************************)
VARIABLES
  users,     \* db.users: the documents in insertion order
  profiles,  \* db.profiles: the documents in insertion order
  now,       \* the clock datetime.utcnow() reads
  pc,        \* per slot: the await at which the handler is suspended
  local,     \* per slot: the local variables of the suspended handler
  resp       \* the response sent last, and the slot whose handler sent it

vars == <<users, profiles, now, pc, local, resp>>

(***************************************************************************)
(* The pydantic models.                                                     *)
(***************************************************************************)
\* class User; id and created_at are filled by the default factories.
User(id, body, t) ==
  [id |-> id, email |-> body.email, name |-> body.name, created_at |-> t]

\* class ProtectedApp; added_at is filled by the default factory.
ProtectedApp(body, t) ==
  [name |-> body.name, icon |-> body.icon, package_name |-> body.package_name,
   added_at |-> t]

\* class UserProfile with the field defaults.
UserProfile(id, user_id, t) ==
  [id |-> id, user_id |-> user_id, protected_apps |-> <<>>, password_hash |-> "",
   protection_state |-> "OFF", click_count |-> 0, theme |-> "purple",
   created_at |-> t, updated_at |-> t]

(***************************************************************************)
(* The store calls.                                                         *)
(***************************************************************************)
\* Positions of the documents of coll that match {"id": id}.
MatchId(coll, id) == {i \in 1..Len(coll) : coll[i].id = id}

\* Positions of the documents of coll that match {"user_id": user_id}.
MatchUserId(coll, user_id) == {i \in 1..Len(coll) : coll[i].user_id = user_id}

Min(S) == CHOOSE i \in S : \A j \in S : i <= j

\* db.users.find_one({"id": id}): the first match, or None.
find_one_user(coll, id) ==
  LET match == MatchId(coll, id)
  IN  IF match = {} THEN None ELSE coll[Min(match)]

\* Variant: a profile with the field defaults stands in for a missing one.
find_one_profile_OrDefault(coll, user_id) ==
  LET match == MatchUserId(coll, user_id)
  IN  IF match = {} THEN UserProfile(0, user_id, 0) ELSE coll[Min(match)]

\* db.profiles.find_one({"user_id": user_id}): the first match, or None.
find_one_profile(coll, user_id) ==
  LET match == MatchUserId(coll, user_id)
  IN  IF match = {} THEN None ELSE coll[Min(match)]

\* Variant: the document is replaced by a new UserProfile that carries the
\* "$set" fields (replace_one for update_one).
ApplySet_Replace(doc, set) ==
  LET fresh == UserProfile(doc.id, doc.user_id, doc.created_at)
  IN  [f \in DOMAIN fresh |-> IF f \in DOMAIN set THEN set[f] ELSE fresh[f]]

\* Variant: the entries of a list field are added to the stored list
\* ("$addToSet" with "$each" for "$set").
ApplySet_AddToList(doc, set) ==
  [f \in DOMAIN doc \cup DOMAIN set |->
     IF f \notin DOMAIN set THEN doc[f]
     ELSE IF f = "protected_apps"
          THEN LET New(app_item) == \A i \in 1..Len(doc[f]) : doc[f][i] /= app_item
               IN  doc[f] \o SelectSeq(set[f], New)
          ELSE set[f]]

\* {"$set": set} applied to one document.
ApplySet(doc, set) ==
  [f \in DOMAIN doc \cup DOMAIN set |-> IF f \in DOMAIN set THEN set[f] ELSE doc[f]]

\* Variant: update_one(..., upsert=True); without a match, a document made
\* of the filter's field and the "$set" fields is inserted.
update_one_Upsert(coll, user_id, set) ==
  LET match == MatchUserId(coll, user_id)
  IN  IF match = {} THEN Append(coll, ApplySet([user_id |-> user_id], set))
      ELSE [coll EXCEPT ![Min(match)] = ApplySet(@, set)]

\* db.profiles.update_one({"user_id": user_id}, {"$set": set}): the first
\* match is updated; nothing happens when there is none (no upsert).
update_one(coll, user_id, set) ==
  LET match == MatchUserId(coll, user_id)
  IN  IF match = {} THEN coll
      ELSE [coll EXCEPT ![Min(match)] = ApplySet(@, set)]

\* insert_one(doc).
insert_one(coll, doc) == Append(coll, doc)

(***************************************************************************)
(* Responses.                                                               *)
(***************************************************************************)
NoResponse == [status |-> 0, body |-> None]
Ok(body) == [status |-> 200, body |-> body]
HTTPException(status_code, detail) ==
  [status |-> status_code, body |-> [detail |-> detail]]

\* The response as sent by the handler in slot r.
Sent(r, response) ==
  [slot |-> r, status |-> response.status, body |-> response.body]

NotFoundUser    == HTTPException(404, "User not found")
NotFoundProfile == HTTPException(404, "Profile not found")
Conflict        == HTTPException(400, "App already protected")
LimitExceeded   == HTTPException(400, "Maximum 20 apps allowed")
ValidationError == HTTPException(400, "Password must be 8 characters or less")

(***************************************************************************)
(* uuid.uuid4(): an identifier no document or pending request holds.        *)
(***************************************************************************)
IssuedIds ==
  {users[i].id : i \in 1..Len(users)}
    \cup {profiles[i].id : i \in 1..Len(profiles)}
    \cup {local[r].user_obj.id : r \in {q \in Slots : pc[q] = "create_user_profile"}}

\* Variant: the identifier is drawn once, when the class is defined
\* (Field(default=...) for Field(default_factory=...)).
uuid4_DrawnOnce == {1}

\* The handlers only compare identifiers for equality, so which fresh value
\* is drawn is immaterial: the least unissued one stands for all of them.
uuid4 == IF Ids \ IssuedIds = {} THEN {} ELSE {Min(Ids \ IssuedIds)}

\* The user_id path parameters the clients send: every stored user's id, and
\* one that belongs to nobody.
UserIdInputs == {users[i].id : i \in 1..Len(users)} \cup {UnknownId}

(***************************************************************************)
(* Initial states, each one a store the handlers below produce from the     *)
(* empty one: the empty store; one freshly created user; one user whose     *)
(* list is one entry short of the limit; one user whose list is full.  The  *)
(* protected apps are the first entries of the catalogue, in catalogue      *)
(* order.                                                                   *)
(***************************************************************************)
Ann == [email |-> "ann@example.com", name |-> "Ann"]

\* The list after add_protected_app of the first n catalogue entries.
InitApps(n) == [i \in 1..n |-> ProtectedApp(mock_apps[i], 0)]

InitProfile(id, user_id, n) ==
  [UserProfile(id, user_id, 0) EXCEPT !.protected_apps = InitApps(n)]

InitStores ==
  { [users |-> <<>>, profiles |-> <<>>],
    [users |-> << User(1, Ann, 0) >>,
     profiles |-> << InitProfile(2, 1, 0) >>],
    [users |-> << User(1, Ann, 0) >>,
     profiles |-> << InitProfile(2, 1, MaxApps - 1) >>],
    [users |-> << User(1, Ann, 0) >>,
     profiles |-> << InitProfile(2, 1, MaxApps) >>] }

Init ==
  /\ \E store \in InitStores :
       /\ users = store.users
       /\ profiles = store.profiles
  /\ now = 1
  /\ pc = [r \in Slots |-> "idle"]
  /\ local = [r \in Slots |-> None]
  /\ resp = NoResponse

(***************************************************************************)
(* A request is taken up by the idle slot of least number: the slots are    *)
(* interchangeable, so this only names the handlers in flight.              *)
(***************************************************************************)
Accepts(r) ==
  /\ pc[r] = "idle"
  /\ \A q \in Slots : q < r => pc[q] /= "idle"

(***************************************************************************)
(* create_user: insert the User, then (after the await) insert its profile  *)
(* and return the User.                                                     *)
(***************************************************************************)
create_user_insert_user(r, body) ==
  /\ Accepts(r)
  /\ now < MaxClock
  /\ Cardinality(Ids \ IssuedIds) >= 2
  /\ \E id \in uuid4 :
       LET user_obj == User(id, body, now) IN
         /\ users' = insert_one(users, user_obj)
         /\ local' = [local EXCEPT ![r] = [user_obj |-> user_obj]]
  /\ pc' = [pc EXCEPT ![r] = "create_user_profile"]
  /\ UNCHANGED resp
  /\ now' = now + 1
  /\ UNCHANGED profiles

create_user_insert_profile(r) ==
  /\ pc[r] = "create_user_profile"
  /\ \E id \in uuid4 :
       profiles' = insert_one(profiles, UserProfile(id, local[r].user_obj.id, now))
  /\ resp' = Sent(r, Ok(local[r].user_obj))
  /\ pc' = [pc EXCEPT ![r] = "idle"]
  /\ local' = [local EXCEPT ![r] = None]
  /\ UNCHANGED <<users, now>>

(***************************************************************************)
(* get_user, get_user_profile.                                              *)
(***************************************************************************)
get_user(r, user_id) ==
  /\ Accepts(r)
  /\ LET user == find_one_user(users, user_id) IN
       resp' = Sent(r, IF user = None THEN NotFoundUser ELSE Ok(user))
  /\ UNCHANGED <<users, profiles, now, pc, local>>

\* What get_user_profile answers on the collection coll.
get_user_profile_response(coll, user_id) ==
  LET profile == find_one_profile(coll, user_id) IN
    IF profile = None THEN NotFoundProfile ELSE Ok(profile)

get_user_profile(r, user_id) ==
  /\ Accepts(r)
  /\ resp' = Sent(r, get_user_profile_response(profiles, user_id))
  /\ UNCHANGED <<users, profiles, now, pc, local>>

(***************************************************************************)
(* add_protected_app: find_one, the two checks and the append on the local  *)
(* copy; then (after the await) update_one with the whole list.             *)
(***************************************************************************)
\* Variant: the duplicate test compares the display name as well.
AlreadyProtected_SameName(protected_apps, app) ==
  \E i \in 1..Len(protected_apps) :
    /\ protected_apps[i].package_name = app.package_name
    /\ protected_apps[i].name = app.name

\* Variant: the duplicate test looks at the first entry only.
AlreadyProtected_FirstOnly(protected_apps, app) ==
  /\ Len(protected_apps) > 0
  /\ protected_apps[1].package_name = app.package_name

\* any(app_item["package_name"] == app.package_name for app_item in protected_apps)
AlreadyProtected(protected_apps, app) ==
  \E i \in 1..Len(protected_apps) :
    protected_apps[i].package_name = app.package_name

\* Variant: the limit test is off by one (">" for ">=").
LimitReached_OffByOne(protected_apps) == Len(protected_apps) > MaxApps

\* Variant: no limit test.
LimitReached_Never(protected_apps) == FALSE

\* len(protected_apps) >= 20
LimitReached(protected_apps) == Len(protected_apps) >= MaxApps

add_protected_app_find(r, user_id, app) ==
  /\ Accepts(r)
  /\ LET profile == find_one_profile(profiles, user_id) IN
       IF profile = None THEN
         /\ resp' = Sent(r, NotFoundProfile)
         /\ UNCHANGED <<now, pc, local>>
       ELSE IF AlreadyProtected(profile.protected_apps, app) THEN
         /\ resp' = Sent(r, Conflict)
         /\ UNCHANGED <<now, pc, local>>
       ELSE IF LimitReached(profile.protected_apps) THEN
         /\ resp' = Sent(r, LimitExceeded)
         /\ UNCHANGED <<now, pc, local>>
       ELSE
         /\ now < MaxClock
         /\ local' = [local EXCEPT ![r] =
              [user_id |-> user_id, app |-> app,
               set |-> [protected_apps |->
                          Append(profile.protected_apps, ProtectedApp(app, now)),
                        updated_at |-> now]]]
         /\ pc' = [pc EXCEPT ![r] = "add_protected_app_update"]
         /\ UNCHANGED resp
         /\ now' = now + 1
  /\ UNCHANGED <<users, profiles>>

add_protected_app_update(r) ==
  /\ pc[r] = "add_protected_app_update"
  /\ profiles' = update_one(profiles, local[r].user_id, local[r].set)
  /\ resp' = Sent(r, Ok([message |-> "App added successfully"]))
  /\ pc' = [pc EXCEPT ![r] = "idle"]
  /\ local' = [local EXCEPT ![r] = None]
  /\ UNCHANGED <<users, now>>

(***************************************************************************)
(* remove_protected_app: find_one and the filter on the local copy; then    *)
(* (after the await) update_one with the whole list.                        *)
(***************************************************************************)
\* Variant: the filter keeps the matching entries ("==" for "!=").
WithoutPackage_KeepMatching(protected_apps, app) ==
  LET Keep(app_item) == app_item.package_name = app.package_name
  IN  SelectSeq(protected_apps, Keep)

\* Variant: the kept entries are collected in reverse (insert(0, app_item)).
WithoutPackage_Reversed(protected_apps, app) ==
  LET Keep(app_item) == app_item.package_name /= app.package_name
      kept == SelectSeq(protected_apps, Keep)
  IN  [i \in 1..Len(kept) |-> kept[Len(kept) + 1 - i]]

\* [app_item for app_item in protected_apps
\*    if app_item["package_name"] != app.package_name]
WithoutPackage(protected_apps, app) ==
  LET Keep(app_item) == app_item.package_name /= app.package_name
  IN  SelectSeq(protected_apps, Keep)

remove_protected_app_find(r, user_id, app) ==
  /\ Accepts(r)
  /\ LET profile == find_one_profile(profiles, user_id) IN
       IF profile = None THEN
         /\ resp' = Sent(r, NotFoundProfile)
         /\ UNCHANGED <<now, pc, local>>
       ELSE
         /\ now < MaxClock
         /\ local' = [local EXCEPT ![r] =
              [user_id |-> user_id, app |-> app,
               set |-> [protected_apps |-> WithoutPackage(profile.protected_apps, app),
                        updated_at |-> now]]]
         /\ pc' = [pc EXCEPT ![r] = "remove_protected_app_update"]
         /\ UNCHANGED resp
         /\ now' = now + 1
  /\ UNCHANGED <<users, profiles>>

remove_protected_app_update(r) ==
  /\ pc[r] = "remove_protected_app_update"
  /\ profiles' = update_one(profiles, local[r].user_id, local[r].set)
  /\ resp' = Sent(r, Ok([message |-> "App removed successfully"]))
  /\ pc' = [pc EXCEPT ![r] = "idle"]
  /\ local' = [local EXCEPT ![r] = None]
  /\ UNCHANGED <<users, now>>

(***************************************************************************)
(* set_password, verify_password.                                           *)
(***************************************************************************)
\* Variant: the length test is off by one (">=" for ">").
PasswordTooLong_OffByOne(password) == Len(password) >= MaxPasswordLen

\* len(password_req.password) > 8
PasswordTooLong(password) == Len(password) > MaxPasswordLen

set_password(r, user_id, password) ==
  /\ Accepts(r)
  /\ IF PasswordTooLong(password) THEN
       /\ resp' = Sent(r, ValidationError)
       /\ UNCHANGED <<profiles, now>>
     ELSE
       /\ now < MaxClock
       /\ profiles' = update_one(profiles, user_id,
            [password_hash |-> hash_password(password), updated_at |-> now])
       /\ resp' = Sent(r, Ok([message |-> "Password set successfully"]))
       /\ now' = now + 1
  /\ UNCHANGED <<users, pc, local>>

\* What verify_password answers on the collection coll.
verify_password_response(coll, user_id, password) ==
  LET profile == find_one_profile(coll, user_id) IN
    IF profile = None THEN NotFoundProfile
    ELSE IF profile.password_hash = hash_password(password)
         THEN Ok([valid |-> TRUE])
         ELSE Ok([valid |-> FALSE])

verify_password(r, user_id, password) ==
  /\ Accepts(r)
  /\ resp' = Sent(r, verify_password_response(profiles, user_id, password))
  /\ UNCHANGED <<users, profiles, now, pc, local>>

(***************************************************************************)
(* update_state.                                                            *)
(***************************************************************************)
\* Variant: an unrecognised protection_state is stored as "OFF".
StateSet_Validated(state_req, t) ==
  [protection_state |->
     IF state_req.protection_state \in {"OFF", "BACKGROUND", "ACTIVE"}
     THEN state_req.protection_state ELSE "OFF",
   theme |-> state_req.theme,
   click_count |-> state_req.click_count,
   updated_at |-> t]

\* The "$set" document of update_state.
StateSet(state_req, t) ==
  [protection_state |-> state_req.protection_state,
   theme |-> state_req.theme,
   click_count |-> state_req.click_count,
   updated_at |-> t]

update_state(r, user_id, state_req) ==
  /\ Accepts(r)
  /\ now < MaxClock
  /\ profiles' = update_one(profiles, user_id, StateSet(state_req, now))
  /\ resp' = Sent(r, Ok([message |-> "State updated successfully"]))
  /\ now' = now + 1
  /\ UNCHANGED <<users, pc, local>>

(***************************************************************************)
(* get_mock_apps.                                                           *)
(***************************************************************************)
get_mock_apps(r) ==
  /\ Accepts(r)
  /\ resp' = Sent(r, Ok([list |-> mock_apps]))
  /\ UNCHANGED <<users, profiles, now, pc, local>>

(***************************************************************************)
(* The specification: any number of clients, any interleaving.              *)
(***************************************************************************)
Next ==
  \E r \in Slots :
    \/ \E body \in UserCreateInputs : create_user_insert_user(r, body)
    \/ create_user_insert_profile(r)
    \/ \E user_id \in UserIdInputs : get_user(r, user_id)
    \/ \E user_id \in UserIdInputs : get_user_profile(r, user_id)
    \/ \E user_id \in UserIdInputs, app \in AppAddInputs : add_protected_app_find(r, user_id, app)
    \/ add_protected_app_update(r)
    \/ \E user_id \in UserIdInputs, app \in AppRemoveInputs :
         remove_protected_app_find(r, user_id, app)
    \/ remove_protected_app_update(r)
    \/ \E user_id \in UserIdInputs, password \in PasswordInputs :
         set_password(r, user_id, password)
    \/ \E user_id \in UserIdInputs, password \in PasswordInputs :
         verify_password(r, user_id, password)
    \/ \E user_id \in UserIdInputs, state_req \in StateUpdateInputs :
         update_state(r, user_id, state_req)
    \/ get_mock_apps(r)

Spec == Init /\ [][Next]_vars

(***************************************************************************)
(* Sequential execution: a request is sent only after the previous one has  *)
(* been answered, so a single handler is in flight.                         *)
(***************************************************************************)
Sequential == \A r \in Slots : r /= 1 => pc'[r] = "idle"

SeqNext == Next /\ Sequential

SeqSpec == Init /\ [][SeqNext]_vars


(***************************************************************************)
(* Vocabulary of the properties.                                            *)
(***************************************************************************)
StoredApps(coll, user_id) == find_one_profile(coll, user_id).protected_apps

PackageNames(apps) == {apps[i].package_name : i \in 1..Len(apps)}

\* The user_ids some stored profile carries.
ProfileUserIds == {profiles[i].user_id : i \in 1..Len(profiles)}

\* Positions of the profiles of coll that reference user_id.
ProfilesOf(coll, user_id) == {i \in 1..Len(coll) : coll[i].user_id = user_id}

\* Every identifier a stored document carries.
StoreIds ==
  {users[i].id : i \in 1..Len(users)}
    \cup {profiles[i].id : i \in 1..Len(profiles)}
    \cup {profiles[i].user_id : i \in 1..Len(profiles)}

\* The document without the fields of F.
Rest(doc, F) == [f \in DOMAIN doc \ F |-> doc[f]]

\* The three fields update_state writes.
StateOf(profile) ==
  [protection_state |-> profile.protection_state, theme |-> profile.theme,
   click_count |-> profile.click_count]

(***************************************************************************)
(* C1.  add_app with a package_name that the profile's protected_apps      *)
(* already holds is answered 400 "App already protected" (Conflict),       *)
(* whatever name and icon the request carries, and the store is unchanged. *)
(***************************************************************************)
C1_DuplicateRejected ==
  [][\A r \in {q \in Slots : pc[q] = "idle"}, user_id \in ProfileUserIds :
       LET present == PackageNames(StoredApps(profiles, user_id)) IN
         \A app \in {a \in AppAddInputs : a.package_name \in present} :
           add_protected_app_find(r, user_id, app)
           => /\ resp' = [slot |-> r, status |-> 400,
                          body |-> [detail |-> "App already protected"]]
              /\ profiles' = profiles
              /\ pc'[r] = "idle"]_vars

\* A package added under one name and icon, and the Conflict answer to a
\* request for that package in a store that holds it.
C1_Witness ==
  /\ resp.status = 400
  /\ resp.body = [detail |-> "App already protected"]
  /\ \E i \in 1..Len(profiles) :
       \E k \in 1..Len(profiles[i].protected_apps) :
         /\ profiles[i].protected_apps[k].package_name = "com.banking.app"
         /\ profiles[i].protected_apps[k].name = "My Bank"

(***************************************************************************)
(* C2.  In sequential execution: add_app of a new package_name to a list   *)
(* of 20 entries is answered 400 "Maximum 20 apps allowed" (LimitExceeded) *)
(* and changes nothing; remove_app of a present package takes a list of 20 *)
(* to 19; add_app of a new package to a list of 19 succeeds and makes it   *)
(* 20, after which the first case applies again.                           *)
(***************************************************************************)
C2_LimitSequential ==
  [][\A user_id \in ProfileUserIds :
       LET before == StoredApps(profiles, user_id)
           after  == StoredApps(profiles', user_id)
       IN
         /\ \A app \in AppAddInputs :
              ( /\ Len(before) = 20
                /\ app.package_name \notin PackageNames(before)
                /\ add_protected_app_find(1, user_id, app) )
              => /\ resp' = [slot |-> 1, status |-> 400,
                             body |-> [detail |-> "Maximum 20 apps allowed"]]
                 /\ profiles' = profiles
                 /\ pc'[1] = "idle"
         /\ \A app \in AppAddInputs :
              ( /\ Len(before) = 19
                /\ app.package_name \notin PackageNames(before)
                /\ add_protected_app_find(1, user_id, app) )
              => pc'[1] = "add_protected_app_update"
         /\ ( /\ pc[1] = "add_protected_app_update"
              /\ local[1].user_id = user_id
              /\ Len(before) = 19
              /\ add_protected_app_update(1) )
            => /\ Len(after) = 20
               /\ resp'.status = 200
         /\ ( /\ pc[1] = "remove_protected_app_update"
              /\ local[1].user_id = user_id
              /\ Len(before) = 20
              /\ local[1].app.package_name \in PackageNames(before)
              /\ remove_protected_app_update(1) )
            => /\ Len(after) = 19
               /\ resp'.status = 200]_vars

\* The list was full, one app was removed and another added in its place,
\* and the next add_app of a new package is answered LimitExceeded.
C2_Witness ==
  /\ resp.status = 400
  /\ resp.body = [detail |-> "Maximum 20 apps allowed"]
  /\ \E i \in 1..Len(profiles) :
       LET apps == profiles[i].protected_apps IN
         /\ Len(apps) = 20
         /\ apps[20].added_at > 0
         /\ "com.instagram.android" \notin PackageNames(apps)
         /\ \E k \in 1..20 : apps[k] = ProtectedApp(mock_apps[20], 0)

(***************************************************************************)
(* C3.  In every reachable state, under every interleaving of the find and *)
(* update steps of concurrent add_app / remove_app requests, no profile's  *)
(* protected_apps holds the same package_name twice.                       *)
(***************************************************************************)
C3_UniquePackageNames ==
  \A i \in 1..Len(profiles) :
    \A j, k \in 1..Len(profiles[i].protected_apps) :
      profiles[i].protected_apps[j].package_name
        = profiles[i].protected_apps[k].package_name => j = k

\* Two add_app requests for one package raced: the first has stored it, the
\* second still holds its own list with that package, about to be written.
C3_Witness ==
  /\ pc[2] = "add_protected_app_update"
  /\ pc[1] = "idle"
  /\ resp = [slot |-> 1, status |-> 200,
             body |-> [message |-> "App added successfully"]]
  /\ local[2].app.package_name
       \in PackageNames(StoredApps(profiles, local[2].user_id))

(***************************************************************************)
(* C4.  In every reachable state, under every interleaving of the find and *)
(* update steps of concurrent add_app / remove_app requests, every         *)
(* profile's protected_apps has at most 20 entries.                        *)
(***************************************************************************)
C4_AtMostTwentyApps ==
  \A i \in 1..Len(profiles) : Len(profiles[i].protected_apps) <= 20

\* Two add_app requests raced on a list of 19: the stored list already has
\* 20 entries and a second list of 20 is about to be written over it.
C4_Witness ==
  /\ pc[2] = "add_protected_app_update"
  /\ Len(StoredApps(profiles, local[2].user_id)) = 20
  /\ Len(local[2].set.protected_apps) = 20
  /\ local[2].app.package_name
       \notin PackageNames(StoredApps(profiles, local[2].user_id))


(***************************************************************************)
(* C5.  create_user, also with an e-mail address another user has: the id  *)
(* of the User it inserts is carried by no document of the store; when it  *)
(* returns, it returns that User, and exactly one Profile references the   *)
(* id, with protection_state OFF, theme purple, click_count 0, no          *)
(* protected apps and an empty password_hash.  No step changes the number  *)
(* of profiles that reference a user_id which has one.                     *)
(***************************************************************************)
C5_CreateUserFreshWithProfile ==
  [][/\ \A r \in Slots :
          /\ (pc[r] = "idle" /\ pc'[r] = "create_user_profile")
             => /\ local'[r].user_obj.id \notin StoreIds
                /\ users' = Append(users, local'[r].user_obj)
                /\ \E body \in UserCreateInputs :
                     /\ local'[r].user_obj.email = body.email
                     /\ local'[r].user_obj.name = body.name
          /\ (pc[r] = "create_user_profile" /\ pc'[r] = "idle")
             => LET user == local[r].user_obj
                    mine == ProfilesOf(profiles', user.id)
                IN  /\ resp' = [slot |-> r, status |-> 200, body |-> user]
                    /\ \E i \in 1..Len(users') : users'[i] = user
                    /\ Cardinality(mine) = 1
                    /\ \A i \in mine :
                         /\ profiles'[i].protection_state = "OFF"
                         /\ profiles'[i].theme = "purple"
                         /\ profiles'[i].click_count = 0
                         /\ profiles'[i].protected_apps = <<>>
                         /\ profiles'[i].password_hash = ""
                         /\ profiles'[i].id \notin StoreIds
     /\ \A user_id \in ProfileUserIds :
          /\ Cardinality(ProfilesOf(profiles, user_id)) = 1
          /\ Cardinality(ProfilesOf(profiles', user_id)) = 1]_vars

\* create_user has returned a second user under the e-mail address of the
\* first; each of the two has its profile.
C5_Witness ==
  /\ Len(users) = 2
  /\ users[1].email = users[2].email
  /\ users[1].id /= users[2].id
  /\ resp.status = 200
  /\ resp.body = users[2]
  /\ Len(profiles) = 2
  /\ profiles[2].user_id = users[2].id

(***************************************************************************)
(* C6.  On an existing profile, once set_password(p) has succeeded,        *)
(* verify_password(q) answers {valid: true} for q = p and {valid: false}   *)
(* (status 200, no failure) for every other q, until the next successful   *)
(* set_password on that profile; in particular a replaced password no      *)
(* longer verifies.                                                        *)
(***************************************************************************)
C6_PasswordRoundTrip ==
  [][\A user_id \in ProfileUserIds :
       LET accepted == {p \in PasswordInputs : Len(p) <= 8}
           idle == {r \in Slots : pc[r] = "idle"}
       IN
         /\ \A r \in idle, p \in accepted :
              set_password(r, user_id, p)
              => \A q \in PasswordInputs :
                   verify_password_response(profiles', user_id, q)
                     = [status |-> 200, body |-> [valid |-> (q = p)]]
         /\ (~ \E r \in idle, p \in accepted : set_password(r, user_id, p))
            => \A q \in PasswordInputs :
                 verify_password_response(profiles', user_id, q)
                   = verify_password_response(profiles, user_id, q)]_vars

\* A password is set on the only profile, and a verify_password with
\* another password has been answered {valid: false}.
C6_Witness ==
  /\ Len(profiles) = 1
  /\ profiles[1].password_hash /= ""
  /\ resp.status = 200
  /\ resp.body = [valid |-> FALSE]

(***************************************************************************)
(* C7.  set_password with a password of more than 8 characters is answered *)
(* 400 (ValidationError) and leaves the store unchanged, so what           *)
(* verify_password answers is unchanged; with a password of 0 to 8         *)
(* characters it is accepted, and on an existing profile that password     *)
(* then verifies.                                                          *)
(***************************************************************************)
C7_PasswordLength ==
  [][\A r \in {q \in Slots : pc[q] = "idle"}, user_id \in UserIdInputs,
        p \in PasswordInputs :
       set_password(r, user_id, p)
       => IF Len(p) > 8
          THEN /\ resp' = [slot |-> r, status |-> 400,
                           body |-> [detail |-> "Password must be 8 characters or less"]]
               /\ profiles' = profiles
               /\ users' = users
          ELSE /\ resp' = [slot |-> r, status |-> 200,
                           body |-> [message |-> "Password set successfully"]]
               /\ user_id \in ProfileUserIds
                  => verify_password_response(profiles', user_id, p)
                       = [status |-> 200, body |-> [valid |-> TRUE]]]_vars

\* A too long password has been refused on a store whose only profile has
\* a password set.
C7_Witness ==
  /\ resp.status = 400
  /\ resp.body = [detail |-> "Password must be 8 characters or less"]
  /\ Len(profiles) = 1
  /\ profiles[1].password_hash /= ""

(***************************************************************************)
(* C8.  On an existing profile, update_state succeeds for every            *)
(* (protection_state, theme, click_count), from every state, and           *)
(* get_profile then returns exactly these three values (also an            *)
(* unrecognised protection_state, also OFF directly to ACTIVE); no other   *)
(* step changes the three values, so the profile holds those of the last   *)
(* update_state.                                                           *)
(***************************************************************************)
C8_UpdateStateRoundTrip ==
  [][\A user_id \in ProfileUserIds :
       LET idle == {r \in Slots : pc[r] = "idle"}
           got == get_user_profile_response(profiles', user_id)
       IN
         /\ \A r \in idle, state_req \in StateUpdateInputs :
              update_state(r, user_id, state_req)
              => /\ resp' = [slot |-> r, status |-> 200,
                             body |-> [message |-> "State updated successfully"]]
                 /\ got.status = 200
                 /\ StateOf(got.body) = state_req
         /\ (~ \E r \in idle, state_req \in StateUpdateInputs :
                 update_state(r, user_id, state_req))
            => /\ got.status = 200
               /\ StateOf(got.body)
                    = StateOf(get_user_profile_response(profiles, user_id).body)]_vars

\* get_profile has returned an unrecognised protection_state and a negative
\* click_count, as written by the second of two stamped requests.
C8_Witness ==
  /\ resp.status = 200
  /\ "protection_state" \in DOMAIN resp.body
  /\ resp.body.protection_state = "LOCKED"
  /\ resp.body.theme = "green"
  /\ resp.body.click_count = -1
  /\ resp.body.updated_at = 2

(***************************************************************************)
(* C9.  In sequential execution, remove_app on an existing profile never   *)
(* fails; when it returns, the package is not in the list, and if it was   *)
(* not in the list before, the list is unchanged.  Hence a second          *)
(* remove_app of the same package leaves the list as the first left it.    *)
(***************************************************************************)
C9_RemoveIdempotent ==
  [][\A user_id \in ProfileUserIds :
       LET before == StoredApps(profiles, user_id)
           after  == StoredApps(profiles', user_id)
       IN
         /\ \A app \in AppRemoveInputs :
              remove_protected_app_find(1, user_id, app)
              => /\ pc'[1] = "remove_protected_app_update"
                 /\ profiles' = profiles
         /\ ( /\ pc[1] = "remove_protected_app_update"
              /\ local[1].user_id = user_id
              /\ remove_protected_app_update(1) )
            => /\ resp' = [slot |-> 1, status |-> 200,
                           body |-> [message |-> "App removed successfully"]]
               /\ local[1].app.package_name \notin PackageNames(after)
               /\ local[1].app.package_name \notin PackageNames(before)
                  => after = before]_vars

\* remove_app has returned on the full initial list, which is as it was:
\* the package was not in it.
C9_Witness ==
  /\ resp.status = 200
  /\ resp.body = [message |-> "App removed successfully"]
  /\ Len(profiles) = 1
  /\ profiles[1].protected_apps = InitApps(MaxApps)
  /\ profiles[1].updated_at > 0

(***************************************************************************)
(* C10.  A Profile is created atomically with its User: in every reachable *)
(* state, every stored User is referenced by a stored Profile.             *)
(***************************************************************************)
C10_ProfileCreatedWithUser ==
  \A i \in 1..Len(users) : ProfilesOf(profiles, users[i].id) /= {}

(***************************************************************************)
(* C11.  get_user with an id no User has is answered 404 "User not found"; *)
(* get_profile, add_app, remove_app and verify_password with a user_id no  *)
(* Profile references are answered 404 "Profile not found".  Each of them  *)
(* returns at once and leaves db.users and db.profiles unchanged (add_app  *)
(* creates no profile).                                                    *)
(***************************************************************************)
C11_NotFound ==
  [][\A r \in Slots : Accepts(r) =>
       LET Untouched ==
             /\ users' = users
             /\ profiles' = profiles
             /\ pc'[r] = "idle"
           UserNotFound ==
             /\ resp' = [slot |-> r, status |-> 404,
                         body |-> [detail |-> "User not found"]]
             /\ Untouched
           ProfileNotFound ==
             /\ resp' = [slot |-> r, status |-> 404,
                         body |-> [detail |-> "Profile not found"]]
             /\ Untouched
       IN
         \* "the step is such a request => it is answered NotFound", written
         \* as "it is answered NotFound, or the step is no such request".
         /\ UserNotFound
            \/ \A id \in UserIdInputs \ {users[i].id : i \in 1..Len(users)} :
                 ~ get_user(r, id)
         /\ ProfileNotFound
            \/ \A user_id \in UserIdInputs \ ProfileUserIds :
                 /\ ~ get_user_profile(r, user_id)
                 /\ \A app \in AppAddInputs :
                      ~ add_protected_app_find(r, user_id, app)
                 /\ \A app \in AppRemoveInputs :
                      ~ remove_protected_app_find(r, user_id, app)
                 /\ \A password \in PasswordInputs :
                      ~ verify_password(r, user_id, password)]_vars

\* A request for the profile of a user whose create_user is still between
\* its two inserts (the User is stored, its Profile is not) has been
\* answered 404 "Profile not found".
C11_Witness ==
  /\ pc[1] = "create_user_profile"
  /\ local[1].user_obj.id \notin ProfileUserIds
  /\ resp = [slot |-> 2, status |-> 404, body |-> [detail |-> "Profile not found"]]
  /\ Len(profiles) = 1
  /\ Len(profiles[1].protected_apps) = MaxApps

(***************************************************************************)
(* C12.  In every reachable state, the click_count of every stored Profile *)
(* is a non-negative integer, whatever click_count the clients send to     *)
(* update_state.                                                           *)
(***************************************************************************)
C12_ClickCountNonNegative ==
  \A i \in 1..Len(profiles) :
    /\ profiles[i].click_count \in Int
    /\ profiles[i].click_count >= 0

(***************************************************************************)
(* C13.  add_app reads the list, and writes the list it read plus its own  *)
(* entry in a later step, answering success; nothing orders the steps of   *)
(* two requests.  So two add_app requests for one user with two different  *)
(* new packages can both read before either writes; then both answer       *)
(* success and the list written last, which lacks the other's entry,       *)
(* replaces the one written first: an update is lost.                      *)
(***************************************************************************)
C13_AddRaceLosesUpdate ==
  [][\A r \in Slots :
       \* the reading step writes nothing
       /\ \/ profiles' = profiles
          \/ pc[r] /= "idle"
          \/ \A user_id \in ProfileUserIds, app \in AppAddInputs :
               ~ add_protected_app_find(r, user_id, app)
       \* the writing step stores the list of the reading step
       /\ (pc[r] = "add_protected_app_update" /\ add_protected_app_update(r))
          => /\ resp' = [slot |-> r, status |-> 200,
                         body |-> [message |-> "App added successfully"]]
             /\ local[r].user_id \in ProfileUserIds
                => StoredApps(profiles', local[r].user_id)
                     = local[r].set.protected_apps]_vars

\* Two add_app requests for one user and two new packages have both read
\* the list before either wrote.  The first has stored its list and has
\* answered success; the second is about to write its own list, as long as
\* the stored one, with its package and without the package of the first.
C13_Witness ==
  /\ pc[1] = "idle"
  /\ pc[2] = "add_protected_app_update"
  /\ resp = [slot |-> 1, status |-> 200,
             body |-> [message |-> "App added successfully"]]
  /\ LET stored == StoredApps(profiles, local[2].user_id)
         mine   == local[2].set.protected_apps
     IN  /\ Len(mine) = Len(stored)
         /\ local[2].app.package_name \in PackageNames(mine)
         /\ local[2].app.package_name \notin PackageNames(stored)
         /\ \E k \in 1..Len(stored) :
              /\ stored[k].package_name \notin PackageNames(mine)
              /\ \A j \in 1..Len(stored) : j /= k => stored[j] = mine[j]

(***************************************************************************)
(* C14.  set_password with a password of at most 8 characters, and         *)
(* update_state, with a user_id no Profile references: each answers its    *)
(* success message, creates no Profile and leaves db.users and db.profiles *)
(* unchanged, so get_profile for that user_id still answers 404.           *)
(***************************************************************************)
C14_NoExistenceCheck ==
  [][\A r \in Slots : Accepts(r) =>
       \A user_id \in UserIdInputs \ ProfileUserIds :
         LET Untouched ==
               /\ users' = users
               /\ profiles' = profiles
               /\ get_user_profile_response(profiles', user_id)
                    = [status |-> 404, body |-> [detail |-> "Profile not found"]]
         IN
           /\ \/ /\ resp' = [slot |-> r, status |-> 200,
                              body |-> [message |-> "Password set successfully"]]
                 /\ Untouched
              \/ \A password \in {p \in PasswordInputs : Len(p) <= 8} :
                   ~ set_password(r, user_id, password)
           /\ \/ /\ resp' = [slot |-> r, status |-> 200,
                              body |-> [message |-> "State updated successfully"]]
                 /\ Untouched
              \/ \A state_req \in StateUpdateInputs :
                   ~ update_state(r, user_id, state_req)]_vars

\* The first request that stamps a document was a set_password; it has been
\* answered success, and the only profile is as it was created, without a
\* password: the request named a user_id without a profile.
C14_Witness ==
  /\ resp = [slot |-> 1, status |-> 200,
             body |-> [message |-> "Password set successfully"]]
  /\ now = 2
  /\ Len(users) = 1
  /\ profiles = << InitProfile(2, 1, 0) >>

(***************************************************************************)
(* C15.  In sequential execution protected_apps keeps insertion order.  A  *)
(* successful add_app makes the list L into L followed by one entry with   *)
(* the request's name, icon and package_name; remove_app makes it into the *)
(* entries of L whose package_name differs from the request's, in the      *)
(* order they have in L; get_profile shows the list as stored.  So on a    *)
(* freshly created user, add_app shows a list of that one app and          *)
(* remove_app of it an empty list.                                         *)
(***************************************************************************)
C15_InsertionOrder ==
  [][\A user_id \in ProfileUserIds :
       LET L     == get_user_profile_response(profiles, user_id).body.protected_apps
           shown == get_user_profile_response(profiles', user_id).body.protected_apps
       IN
         /\ ( /\ pc[1] = "add_protected_app_update"
              /\ local[1].user_id = user_id
              /\ add_protected_app_update(1) )
            => /\ Len(shown) = Len(L) + 1
               /\ \A i \in 1..Len(L) : shown[i] = L[i]
               /\ shown[Len(shown)].name = local[1].app.name
               /\ shown[Len(shown)].icon = local[1].app.icon
               /\ shown[Len(shown)].package_name = local[1].app.package_name
         /\ ( /\ pc[1] = "remove_protected_app_update"
              /\ local[1].user_id = user_id
              /\ remove_protected_app_update(1) )
            => LET kept == {i \in 1..Len(L) :
                             L[i].package_name /= local[1].app.package_name}
               IN  /\ Len(shown) = Cardinality(kept)
                   /\ \A i \in kept :
                        shown[Cardinality({j \in kept : j <= i})] = L[i]
                   /\ (Len(L) = 1 /\ kept = {}) => shown = <<>>]_vars

\* From the full list, Instagram (third of twenty) has been removed and
\* Notes has been added: the list is the other nineteen in their order,
\* followed by Notes.
C15_Witness ==
  /\ resp = [slot |-> 1, status |-> 200,
             body |-> [message |-> "App added successfully"]]
  /\ Len(profiles) = 1
  /\ profiles[1].protected_apps
       = [i \in 1..MaxApps |->
            IF i < 3 THEN ProtectedApp(mock_apps[i], 0)
            ELSE IF i < MaxApps THEN ProtectedApp(mock_apps[i + 1], 0)
            ELSE ProtectedApp([name |-> "Notes", package_name |-> "com.notes.app",
                               icon |-> "N"], 2)]

(***************************************************************************)
(* C16.  A mutating request writes only its own fields of the profile it   *)
(* names: the write of add_app and of remove_app changes protected_apps    *)
(* and updated_at, set_password changes password_hash and updated_at,      *)
(* update_state changes protection_state, theme, click_count and           *)
(* updated_at; the other fields of that profile, every other profile and   *)
(* db.users stay as they are.  This holds of every step under every        *)
(* interleaving, so a set_password or update_state served between the read *)
(* and the write of an add_app or remove_app for the same user is not      *)
(* undone by that write, and does not undo it.                             *)
(***************************************************************************)
C16_WritesOwnFields ==
  [][\/ users' = users /\ profiles' = profiles
     \/ LET Writes(user_id, F) ==
               /\ users' = users
               /\ Len(profiles') = Len(profiles)
               /\ \A i \in 1..Len(profiles) :
                    IF profiles[i].user_id = user_id
                    THEN Rest(profiles'[i], F) = Rest(profiles[i], F)
                    ELSE profiles'[i] = profiles[i]
        IN  \A r \in Slots :
              /\ (pc[r] = "add_protected_app_update" /\ add_protected_app_update(r))
                 => Writes(local[r].user_id, {"protected_apps", "updated_at"})
              /\ (pc[r] = "remove_protected_app_update" /\ remove_protected_app_update(r))
                 => Writes(local[r].user_id, {"protected_apps", "updated_at"})
              /\ Accepts(r) =>
                   \A user_id \in UserIdInputs :
                     /\ \A password \in PasswordInputs :
                          set_password(r, user_id, password)
                          => Writes(user_id, {"password_hash", "updated_at"})
                     /\ \A state_req \in StateUpdateInputs :
                          update_state(r, user_id, state_req)
                          => Writes(user_id, {"protection_state", "theme",
                                              "click_count", "updated_at"})]_vars

\* add_app has read the empty list, set_password for the same user has been
\* served, then add_app has written: the profile holds the app and the
\* password.
C16_Witness ==
  /\ resp = [slot |-> 1, status |-> 200,
             body |-> [message |-> "App added successfully"]]
  /\ now = 3
  /\ Len(profiles) = 1
  /\ Len(profiles[1].protected_apps) = 1
  /\ profiles[1].protected_apps[1].added_at = 1
  /\ profiles[1].updated_at = 1
  /\ profiles[1].password_hash = hash_password("secure12")

(***************************************************************************)
(* C17.  On a profile whose password_hash is empty (no set_password has    *)
(* succeeded on it), verify_password answers {valid: false} for every      *)
(* password, the empty one included, and changes nothing.  After every     *)
(* step, the password_hash of every profile is empty or the hash of a      *)
(* password of at most 8 characters.                                       *)
(***************************************************************************)
C17_UnsetPasswordNeverVerifies ==
  [][/\ \A i \in 1..Len(profiles') :
          \/ profiles'[i].password_hash = ""
          \/ \E p \in {q \in PasswordInputs : Len(q) <= 8} :
               profiles'[i].password_hash = hash_password(p)
     /\ \A r \in Slots : Accepts(r) =>
          \A user_id \in {u \in ProfileUserIds :
                            find_one_profile(profiles, u).password_hash = ""} :
            \/ /\ resp' = [slot |-> r, status |-> 200, body |-> [valid |-> FALSE]]
               /\ profiles' = profiles
            \/ \A password \in PasswordInputs :
                 ~ verify_password(r, user_id, password)]_vars

\* verify_password has been answered {valid: false} on the only profile,
\* on which no password is set, after a set_password that was refused or
\* named another user_id.
C17_Witness ==
  /\ resp = [slot |-> 1, status |-> 200, body |-> [valid |-> FALSE]]
  /\ Len(profiles) = 1
  /\ profiles[1].password_hash = ""
  /\ now = 2
  /\ profiles[1] = InitProfile(2, 1, 0)

====
